---- MODULE Spec2Model ----
(***************************************************************************)
(* QuackShell terminal subsystem.                                          *)
(*                                                                         *)
(* Server: src/unnamed/part_000 (io.on('connection'), lines 270-307): one  *)
(* node-pty shell per socket.io connection.                                *)
(* Client: src/client/src/components/TerminalTabs.tsx (tab list, lines     *)
(* 98-220) and the Terminal component in                                   *)
(* src/client/src/components/QueryEditor.tsx (lines 567-675): one          *)
(* socket.io client per Terminal, opened by an effect with deps [active].  *)
(***************************************************************************)
EXTENDS Naturals, Integers, Sequences, FiniteSets, TLC

\* ---------------------------------------------------------------- bounds
\* tabs ever opened in the tab bar; each Terminal opens one socket
MaxTabs == 3
\* client sockets ever opened against the server
MaxClients == 2
\* chunks buffered anywhere: packets in flight to the server, input a shell has
\* read, output events emitted on a socket
MaxChunks == 1
\* chunks buffered on the one connection of StreamSpec
MaxStream == 2
\* editor tabs open at once
MaxEditorTabs == 2
\* query texts that are not in a full history
MaxNewQueries == 1
\* rows of the largest response
MaxRows == 101

\* ------------------------------------------------------ program constants
DefaultCols == 80
DefaultRows == 30
HistoryLimit == 50
DefaultRowsPerPage == 100

TabIds == 1..MaxTabs
Conns == 1..MaxTabs
\* Sizes a resize event carries: 0 stands for every size below 1.
ColsSet == {0, 2}
RowsSet == {0, 1}
Chunks == {"a"}
\* distinct payloads, to tell the order of the chunks of one stream
Markers == {"a", "b"}

\* process.env.SHELL: not in the environment ("undefined"), empty, or a path.
EnvShells == {"undefined", "", "/bin/bash"}
\* os.platform()
Platforms == {"win32", "linux", "darwin"}
\* Directories of the host, and the paths a POST /api/cwd body may carry: a
\* directory, no path, or a path that is not a directory.
Dirs == {"uploads", "/tmp"}
Paths == Dirs \cup {"", "notes.txt"}
\* More of the host's file system: a directory the server may enter but not
\* list, what exists, and the paths of requests that name none of it.
UnreadableDirs == {"/locked"}
Existing == Dirs \cup UnreadableDirs \cup {"notes.txt"}
RequestPaths == Paths \cup UnreadableDirs \cup {"/nowhere"}

\* os.platform() === 'win32' ? 'powershell.exe' : '/bin/zsh'
DefaultShell(p) == IF p = "win32" THEN "powershell.exe" ELSE "/bin/zsh"

\* ShellFor that never looks at the environment.
ShellForIgnoringEnv(es, p) == DefaultShell(p)

\* process.env.SHELL || (...): `||` takes the right side for every falsy left
\* side, which for an environment variable is undefined or the empty string.
ShellFor(es, p) == IF es \notin {"undefined", ""} THEN es ELSE DefaultShell(p)

Range(s) == {s[i] : i \in DOMAIN s}

\* Array.prototype.filter(t => t.id !== id)
RECURSIVE FilterOut(_, _)
FilterOut(s, id) ==
    IF s = <<>> THEN <<>>
    ELSE IF Head(s) = id THEN FilterOut(Tail(s), id)
         ELSE <<Head(s)>> \o FilterOut(Tail(s), id)

\* newTabs.splice(i, 1) with a 0-based index: the list without element i
SpliceOut(s, i) ==
    IF i + 1 \in DOMAIN s
    THEN SubSeq(s, 1, i) \o SubSeq(s, i + 2, Len(s))
    ELSE s

\* newTabs.splice(i, 0, x) with a 0-based index (clamped to the length)
SpliceIn(s, i, x) ==
    LET k == IF i > Len(s) THEN Len(s) ELSE i
    IN  SubSeq(s, 1, k) \o <<x>> \o SubSeq(s, k + 1, Len(s))

VARIABLES
    \* client: TerminalTabs state
    tabs, activeTabId, nextId,
    \* client: per-Terminal refs and the effect cleanup React holds
    initializedRef, socketRef, cleanupFn,
    \* transport
    link, netIn, nextConn,
    \* server
    serverUp, conn, ptyProcess, handlers, geom, written, out, killCalls, log,
    \* host: environment and working directory of the server process, and the
    \* arguments of the pty.spawn call of each connection
    envShell, platform, cwd, spawnArgs,
    \* host: the last POST /api/cwd request with the status of its response
    response,
    \* client: what the 'terminal:output' listener of each socket has written
    \* to its terminal
    view,
    \* client: App state (the editor tabs) and the pending auto-save timer
    editorTabs, activeEditorTabId, isInitialized, saveTimer,
    \* client: the localStorage of the page's origin
    localStorage,
    \* client: QueryEditor state
    results, error, currentPage, rowsPerPage, sql

clientVars == <<tabs, activeTabId, nextId, initializedRef, socketRef, cleanupFn>>
netVars == <<link, netIn, nextConn>>
serverVars == <<serverUp, conn, ptyProcess, handlers, geom, written, out, killCalls, log>>
envVars == <<envShell, platform, cwd, response>>
hostVars == <<envVars, spawnArgs>>
appVars == <<editorTabs, activeEditorTabId, isInitialized, saveTimer>>
queryVars == <<results, error, currentPage, rowsPerPage, sql>>
browserVars == <<appVars, localStorage, queryVars>>
vars == <<clientVars, netVars, serverVars, hostVars, view, browserVars>>

RECURSIVE SumLen(_, _)
SumLen(f, S) ==
    IF S = {} THEN 0
    ELSE LET c == CHOOSE x \in S : TRUE
         IN  Len(f[c]) + SumLen(f, S \ {c})

InFlight == SumLen(netIn, Conns)
Buffered == InFlight + SumLen(written, Conns) + SumLen(out, Conns)

\* Events a client socket emits to the server.
InputEvent(d) == [type |-> "input", data |-> d, cols |-> 0, rows |-> 0]
ResizeEvent(cols, rows) == [type |-> "resize", data |-> "", cols |-> cols, rows |-> rows]

\* ptyProcess[c] is the closure variable of connection c: "undefined" until
\* pty.spawn returns, then a process that is "alive", has "exited" by itself or
\* was "killed" (by kill() or by the hangup when the server process ends).
\* geom[c] is the size of the PTY of connection c, written[c] what its shell
\* has read from the PTY and out[c] the 'terminal:output' events emitted on
\* socket c: a PTY exists, and a shell reads, only while the process lives, and
\* the events of a socket go with the socket.
NoGeometry == <<0, 0>>

\* spawnArgs[c] before the connection handler of c has called pty.spawn
NoSpawn == [file |-> "", cwd |-> ""]

\* The text the catch branch emits on 'terminal:output'.
SpawnDiagnostic == "Error: Failed to spawn shell"

\* ------------------------------------------------------------------ server

\* An exception leaves a socket.io event handler: nothing in part_000 catches it
\* (no try/catch in the handlers, no process.on('uncaughtException')), so the
\* Node process terminates. Every socket of the server closes and every PTY
\* master is closed with it, which hangs up the shells.
UncaughtException ==
    /\ serverUp' = FALSE
    /\ conn' = [k \in Conns |-> IF conn[k] = "open" THEN "closed" ELSE conn[k]]
    /\ ptyProcess' = [k \in Conns |-> IF ptyProcess[k] = "alive" THEN "killed" ELSE ptyProcess[k]]
    /\ link' = [k \in Conns |-> IF link[k] = "up" THEN "down" ELSE link[k]]
    /\ geom' = [k \in Conns |-> NoGeometry]
    /\ written' = [k \in Conns |-> <<>>]
    /\ out' = [k \in Conns |-> <<>>]
    /\ UNCHANGED <<handlers, killCalls, log>>

\* SpawnFailed with the diagnostic forgotten: the failure is only logged.
SpawnFailedSilent(c) ==
    /\ log' = [log EXCEPT ![c] = <<"connected", "spawning", "spawn-failed">>]
    /\ UNCHANGED <<out, ptyProcess, handlers, geom>>

\* catch (err) { console.error(...); socket.emit('terminal:output', ...); return; }
SpawnFailed(c) ==
    /\ log' = [log EXCEPT ![c] = <<"connected", "spawning", "spawn-failed">>]
    /\ out' = [out EXCEPT ![c] = Append(@, SpawnDiagnostic)]
    /\ UNCHANGED <<ptyProcess, handlers, geom>>

\* SpawnOk that leaves the registration of the handlers to a later callback.
SpawnOkRegistersLater(c) ==
    /\ log' = [log EXCEPT ![c] = <<"connected", "spawning">>]
    /\ ptyProcess' = [ptyProcess EXCEPT ![c] = "alive"]
    /\ geom' = [geom EXCEPT ![c] = <<DefaultCols, DefaultRows>>]
    /\ UNCHANGED <<handlers, out>>

\* pty.spawn succeeded (cols: 80, rows: 30): the input, resize, data and
\* disconnect handlers are registered in the same callback.
SpawnOk(c) ==
    /\ log' = [log EXCEPT ![c] = <<"connected", "spawning">>]
    /\ ptyProcess' = [ptyProcess EXCEPT ![c] = "alive"]
    /\ geom' = [geom EXCEPT ![c] = <<DefaultCols, DefaultRows>>]
    /\ handlers' = [handlers EXCEPT ![c] = TRUE]
    /\ UNCHANGED out

\* SpawnCwd that is the directory the server started in.
SpawnCwdAtStart == "uploads"

\* cwd: process.cwd(), evaluated when the connection handler runs
SpawnCwd == cwd

\* io.on('connection', (socket) => { ... }): pty.spawn either returns a
\* process or throws.
Connection(c) ==
    /\ serverUp
    /\ link[c] = "up"
    /\ conn[c] = "none"
    /\ conn' = [conn EXCEPT ![c] = "open"]
    /\ spawnArgs' = [spawnArgs EXCEPT ![c] =
                        [file |-> ShellFor(envShell, platform), cwd |-> SpawnCwd]]
    /\ \/ SpawnOk(c)
       \/ SpawnFailed(c)
    /\ UNCHANGED <<clientVars, netVars, serverUp, written, killCalls, envVars, view, browserVars>>

\* PtyWrite on one ptyProcess variable shared by every connection: the data
\* goes to the process spawned last.
PtyWriteShared(c, data) ==
    LET spawned == {k \in Conns : ptyProcess[k] # "undefined"}
        last == CHOOSE k \in spawned : \A j \in spawned : j <= k
    IN  /\ written' = [written EXCEPT ![last] =
                          IF ptyProcess[last] = "alive" THEN Append(@, data) ELSE @]
        /\ UNCHANGED <<serverUp, conn, ptyProcess, handlers, geom, out, killCalls, log, link>>

\* PtyWrite that puts the data before what the shell has yet to read.
PtyWritePrepends(c, data) ==
    /\ written' = [written EXCEPT ![c] =
                      IF ptyProcess[c] = "alive" THEN <<data>> \o @ ELSE @]
    /\ UNCHANGED <<serverUp, conn, ptyProcess, handlers, geom, out, killCalls, log, link>>

\* PtyWrite that ends every chunk with a newline.
PtyWriteAddsNewline(c, data) ==
    /\ written' = [written EXCEPT ![c] =
                      IF ptyProcess[c] = "alive" THEN Append(@, data \o "\n") ELSE @]
    /\ UNCHANGED <<serverUp, conn, ptyProcess, handlers, geom, out, killCalls, log, link>>

\* PtyWrite that starts the shell again when it has exited.
PtyWriteRevives(c, data) ==
    /\ written' = [written EXCEPT ![c] =
                      IF ptyProcess[c] = "alive" THEN Append(@, data) ELSE @]
    /\ ptyProcess' = [ptyProcess EXCEPT ![c] = IF @ = "exited" THEN "alive" ELSE @]
    /\ UNCHANGED <<serverUp, conn, handlers, geom, out, killCalls, log, link>>

\* ptyProcess.write(data) of node-pty: on a terminal whose process has exited
\* the write is a no-op.
PtyWrite(c, data) ==
    /\ written' = [written EXCEPT ![c] =
                      IF ptyProcess[c] = "alive" THEN Append(@, data) ELSE @]
    /\ UNCHANGED <<serverUp, conn, ptyProcess, handlers, geom, out, killCalls, log, link>>

\* socket.on('terminal:input', (data) => { ptyProcess.write(data); })
TerminalInput(c, data) == PtyWrite(c, data)

\* PtyResize with the two sizes in the wrong order.
PtyResizeSwapped(c, cols, rows) ==
    IF cols < 1 \/ rows < 1
    THEN UncaughtException
    ELSE IF ptyProcess[c] = "alive"
    THEN /\ geom' = [geom EXCEPT ![c] = <<rows, cols>>]
         /\ UNCHANGED <<serverUp, conn, ptyProcess, handlers, written, out, killCalls, log, link>>
    ELSE \/ UncaughtException
         \/ UNCHANGED <<serverVars, link>>

\* ptyProcess.resize(cols, rows) of node-pty: a size below 1 throws ('resizing
\* must be done using positive cols and rows'); on a terminal whose process has
\* exited the resize ioctl fails and throws, or (platform-dependent) the call
\* has no effect.
PtyResize(c, cols, rows) ==
    IF cols < 1 \/ rows < 1
    THEN UncaughtException
    ELSE IF ptyProcess[c] = "alive"
    THEN /\ geom' = [geom EXCEPT ![c] = <<cols, rows>>]
         /\ UNCHANGED <<serverUp, conn, ptyProcess, handlers, written, out, killCalls, log, link>>
    ELSE \/ UncaughtException
         \/ UNCHANGED <<serverVars, link>>

\* socket.on('terminal:resize', (size) => { ptyProcess.resize(size.cols, size.rows); })
TerminalResize(c, cols, rows) == PtyResize(c, cols, rows)

\* The server socket receives the next packet of connection c and dispatches it
\* to the listener registered for its event name; with no listener registered
\* (the spawn-failure return) the packet is discarded. When the handler throws,
\* the process is gone and with it every packet still in flight.
Deliver(c) ==
    /\ serverUp
    /\ conn[c] = "open"
    /\ netIn[c] # <<>>
    /\ LET ev == Head(netIn[c]) IN
       IF ~handlers[c]
       THEN UNCHANGED <<serverVars, link>>
       ELSE IF ev.type = "input"
       THEN TerminalInput(c, ev.data)
       ELSE TerminalResize(c, ev.cols, ev.rows)
    /\ netIn' = IF serverUp'
                THEN [netIn EXCEPT ![c] = Tail(@)]
                ELSE [k \in Conns |-> <<>>]
    /\ view' = IF serverUp' THEN view ELSE [k \in Conns |-> <<>>]
    /\ UNCHANGED <<clientVars, nextConn, hostVars, browserVars>>

\* PtyKill that signals whatever the handle names, exited or not.
PtyKillSignalsDead(c) ==
    /\ killCalls' = [killCalls EXCEPT ![c] = @ + 1]
    /\ ptyProcess' = [ptyProcess EXCEPT ![c] = "killed"]
    /\ geom' = [geom EXCEPT ![c] = NoGeometry]
    /\ written' = [written EXCEPT ![c] = <<>>]

\* ptyProcess.kill() of node-pty: signals the process; on a process that has
\* already exited the signal error is swallowed.
PtyKill(c) ==
    /\ killCalls' = [killCalls EXCEPT ![c] = @ + 1]
    /\ ptyProcess' = [ptyProcess EXCEPT ![c] = IF @ = "alive" THEN "killed" ELSE @]
    /\ geom' = [geom EXCEPT ![c] = NoGeometry]
    /\ written' = [written EXCEPT ![c] = <<>>]

\* DisconnectHandler that only logs: the shell is left running.
DisconnectHandlerLeavesShell(c) ==
    /\ log' = [log EXCEPT ![c] = Append(@, "disconnected")]
    /\ UNCHANGED <<killCalls, ptyProcess, geom, written>>

\* socket.on('disconnect', () => { console.log(...); ptyProcess.kill(); })
DisconnectHandler(c) ==
    /\ log' = [log EXCEPT ![c] = Append(@, "disconnected")]
    /\ PtyKill(c)

\* The server learns that connection c is gone (disconnect packet, transport
\* close or ping timeout) and fires 'disconnect' on its socket.
OnDisconnect(c) ==
    /\ serverUp
    /\ conn[c] = "open"
    /\ link[c] = "down"
    /\ conn' = [conn EXCEPT ![c] = "closed"]
    /\ netIn' = [netIn EXCEPT ![c] = <<>>]
    /\ IF handlers[c]
       THEN DisconnectHandler(c)
       ELSE UNCHANGED <<log, killCalls, ptyProcess, geom, written>>
    /\ out' = [out EXCEPT ![c] = <<>>]
    /\ UNCHANGED <<clientVars, link, nextConn, serverUp, handlers, hostVars, view, browserVars>>

\* The 'terminal:output' event the server emits on the socket of connection
\* c for a chunk: socket.emit('terminal:output', data), the data and nothing
\* else.
TerminalOutputEvent(c, data) == [data |-> data]

\* ptyProcess.onData((data) => { socket.emit('terminal:output', data); })
\* An emit on a socket that is no longer connected is discarded.
ShellOutput(c, d) ==
    /\ serverUp
    /\ ptyProcess[c] = "alive"
    /\ conn[c] = "open"
    /\ out' = [out EXCEPT ![c] = Append(@, d)]
    /\ UNCHANGED <<clientVars, netVars, serverUp, conn, ptyProcess, handlers, geom, written, killCalls, log, hostVars, view, browserVars>>

\* The shell exits by itself (the user types `exit`, the shell crashes).
\* part_000 registers no exit listener: nothing else changes.
ShellExit(c) ==
    /\ serverUp
    /\ ptyProcess[c] = "alive"
    /\ ptyProcess' = [ptyProcess EXCEPT ![c] = "exited"]
    /\ geom' = [geom EXCEPT ![c] = NoGeometry]
    /\ written' = [written EXCEPT ![c] = <<>>]
    /\ UNCHANGED <<clientVars, netVars, serverUp, conn, handlers, out, killCalls, log, hostVars, view, browserVars>>

\* No POST /api/cwd request answered yet.
NoResponse == [path |-> "", status |-> 0]

\* ChangeDir that changes the directory before it has looked at the path.
ChangeDirUnchecked(newPath) ==
    /\ serverUp
    /\ cwd' = IF newPath = "" THEN cwd ELSE newPath
    /\ response' = [path |-> newPath,
                    status |-> IF newPath = "" THEN 400
                               ELSE IF newPath \in Dirs THEN 200 ELSE 500]
    /\ UNCHANGED <<clientVars, netVars, serverVars, envShell, platform, spawnArgs, view, browserVars>>

\* app.post('/api/cwd'): no path in the body is answered 400; a path that
\* does not exist makes fsPromises.stat throw, answered 500 by the catch; a
\* path that is not a directory is answered 400; otherwise
\* process.chdir(newPath), and then the listing of the new directory, which
\* throws into the same catch (500) when the directory cannot be read.
ChangeDir(newPath) ==
    /\ serverUp
    /\ cwd' = IF newPath \in Dirs \cup UnreadableDirs THEN newPath ELSE cwd
    /\ response' = [path |-> newPath,
                    status |-> IF newPath = "" THEN 400
                               ELSE IF newPath \notin Existing THEN 500
                               ELSE IF newPath \notin Dirs \cup UnreadableDirs THEN 400
                               ELSE IF newPath \in UnreadableDirs THEN 500
                               ELSE 200]
    /\ UNCHANGED <<clientVars, netVars, serverVars, envShell, platform, spawnArgs, view, browserVars>>

\* ------------------------------------------------------------------ client

Mounted(ts, t) == t \in Range(ts)

\* React, after a render that changes the tab list from tabs to nt and the
\* active tab from activeTabId to na, for the Terminal keyed t:
\*   it is unmounted (its key left the list),
Unmounting(nt, t) == Mounted(tabs, t) /\ ~Mounted(nt, t)
\*   or it stays and its `active` prop, the only dependency of both effects, changed,
DepChange(nt, na, t) ==
    /\ Mounted(tabs, t)
    /\ Mounted(nt, t)
    /\ (activeTabId = t) # (na = t)
\*   or it is mounted for the first time.
Mounting(nt, t) == ~Mounted(tabs, t) /\ Mounted(nt, t)

\* React runs the cleanup the last run of the init effect returned, when the
\* component unmounts and before the effect runs again for changed deps:
\*   return () => { socketRef.current?.disconnect(); term.dispose(); ... }
RunsCleanup(nt, na, t) ==
    /\ cleanupFn[t]
    /\ (Unmounting(nt, t) \/ DepChange(nt, na, t))

\* RunsInit without the initializedRef half of the guard.
RunsInitOnEveryActivation(nt, na, t) ==
    /\ na = t
    /\ \/ Mounting(nt, t)
       \/ DepChange(nt, na, t)

\* The init effect runs past its guard
\*   if (!active || initializedRef.current) return;
RunsInit(nt, na, t) ==
    /\ na = t
    /\ \/ Mounting(nt, t)
       \/ DepChange(nt, na, t) /\ ~initializedRef[t]

\* Commit of a render: the effects of every Terminal, as one step with the
\* event handler that caused the render.
Render(nt, na) ==
    LET inits == {t \in TabIds : RunsInit(nt, na, t)}
        cleaned == {socketRef[t] : t \in {u \in TabIds : RunsCleanup(nt, na, u)}}
    IN  /\ inits # {} => nextConn \in Conns
        /\ tabs' = nt
        /\ activeTabId' = na
        /\ initializedRef' = [t \in TabIds |->
              IF t \in inits THEN TRUE
              ELSE IF Unmounting(nt, t) THEN FALSE
              ELSE initializedRef[t]]
        /\ socketRef' = [t \in TabIds |->
              IF t \in inits THEN nextConn
              ELSE IF Unmounting(nt, t) THEN 0
              ELSE socketRef[t]]
        /\ cleanupFn' = [t \in TabIds |->
              IF t \in inits THEN TRUE
              ELSE IF Unmounting(nt, t) \/ DepChange(nt, na, t) THEN FALSE
              ELSE cleanupFn[t]]
        /\ link' = [c \in Conns |->
              IF inits # {} /\ c = nextConn THEN "up"
              ELSE IF c \in cleaned /\ link[c] = "up" THEN "down"
              ELSE link[c]]
        /\ nextConn' = IF inits # {} THEN nextConn + 1 ELSE nextConn
        /\ view' = [c \in Conns |-> IF c \in cleaned THEN <<>> ELSE view[c]]

\* const addTab = () => { ... setTabs([...tabs, {id: newId}]); setActiveTabId(newId); }
\* crypto.randomUUID() is a fresh id.
AddTab ==
    /\ tabs # <<>>
    /\ nextId <= MaxTabs
    /\ Render(Append(tabs, nextId), nextId)
    /\ nextId' = nextId + 1
    /\ UNCHANGED <<netIn, serverVars, hostVars, browserVars>>

\* RemoveTab that activates the first of the remaining tabs.
RemoveTabActivatesFirst(idToRemove) ==
    /\ Mounted(tabs, idToRemove)
    /\ Len(tabs) # 1
    /\ LET newTabs == FilterOut(tabs, idToRemove)
       IN  Render(newTabs,
                  IF activeTabId = idToRemove
                  THEN newTabs[1]
                  ELSE activeTabId)
    /\ UNCHANGED <<nextId, netIn, serverVars, hostVars, browserVars>>

\* const removeTab = (e, idToRemove) => { ... }
RemoveTab(idToRemove) ==
    /\ Mounted(tabs, idToRemove)
    /\ Len(tabs) # 1
    /\ LET newTabs == FilterOut(tabs, idToRemove)
       IN  Render(newTabs,
                  IF activeTabId = idToRemove
                  THEN newTabs[Len(newTabs)]
                  ELSE activeTabId)
    /\ UNCHANGED <<nextId, netIn, serverVars, hostVars, browserVars>>

\* onClick={() => setActiveTabId(tab.id)}
SelectTab(id) ==
    /\ Mounted(tabs, id)
    /\ id # activeTabId
    /\ Render(tabs, id)
    /\ UNCHANGED <<nextId, netIn, serverVars, hostVars, browserVars>>

\* const [movedTab] = newTabs.splice(sourceIndex, 1): undefined when the
\* index is past the end of the list and nothing was removed.
Undefined == 0

\* The indices a 'sourceIndex' drag payload can carry: handleDragStart of this
\* tab bar and of the editor tab bar (part_001:45-49) both set it, to the index
\* of the dragged tab in their own list, which may be longer than this one.
SourceIndexes == 0..MaxTabs

\* tabs.map((tab, index) => <div key={tab.id} ...>) throws a TypeError for an
\* undefined element. No error boundary is above TerminalTabs, so React
\* unmounts the tree: no tab is rendered and the cleanup of every Terminal runs.
RenderThrows == Render(<<>>, Undefined)

\* const handleDrop = (e, targetIndex) => { ... } on the tab at targetIndex
\* for a payload that carries sourceIndex (0-based indices).
HandleDrop(sourceIndex, targetIndex) ==
    /\ targetIndex + 1 \in DOMAIN tabs
    /\ sourceIndex # targetIndex
    /\ LET movedTab == IF sourceIndex + 1 \in DOMAIN tabs
                       THEN tabs[sourceIndex + 1]
                       ELSE Undefined
           newTabs == SpliceIn(SpliceOut(tabs, sourceIndex), targetIndex, movedTab)
       IN  IF Undefined \in Range(newTabs)
           THEN RenderThrows
           ELSE Render(newTabs, activeTabId)
    /\ UNCHANGED <<nextId, netIn, serverVars, hostVars, browserVars>>

\* ------------------------------------------------- socket.io client sockets

\* io('http://localhost:3001'): a client opens a socket; the server will see
\* it as a new connection.
ClientConnect ==
    /\ nextConn <= MaxClients
    /\ nextConn \in Conns
    /\ link' = [link EXCEPT ![nextConn] = "up"]
    /\ nextConn' = nextConn + 1
    /\ UNCHANGED <<clientVars, netIn, serverVars, hostVars, view, browserVars>>

\* socket.emit(...): the packet travels to the server in order.
SocketEmit(c, ev) ==
    /\ c \in Conns
    /\ link[c] = "up"
    /\ netIn' = [netIn EXCEPT ![c] = Append(@, ev)]
    /\ UNCHANGED <<clientVars, link, nextConn, serverVars, hostVars, view, browserVars>>

\* socket.emit('terminal:input', data)
ClientEmitInput(c, d) == SocketEmit(c, InputEvent(d))

\* socket.emit('terminal:resize', {cols, rows})
ClientEmitResize(c, cols, rows) == SocketEmit(c, ResizeEvent(cols, rows))

\* The connection ends: the client calls socket.disconnect() (tab close, page
\* unload) or the transport breaks (network loss, ping timeout).
ConnectionLost(c) ==
    /\ link[c] = "up"
    /\ link' = [link EXCEPT ![c] = "down"]
    /\ view' = [view EXCEPT ![c] = <<>>]
    /\ UNCHANGED <<clientVars, netIn, nextConn, serverVars, hostVars, browserVars>>

\* ClientReceive that takes the newest event emitted instead of the next one.
ClientReceiveNewest(c) ==
    /\ link[c] = "up"
    /\ Len(view[c]) < Len(out[c])
    /\ view' = [view EXCEPT ![c] = Append(@, out[c][Len(out[c])])]
    /\ UNCHANGED <<clientVars, netVars, serverVars, hostVars, browserVars>>

\* socket.on('terminal:output', (data) => { term.write(data); }): the client
\* socket receives the next event the server emitted on this connection and
\* its listener writes the payload to the terminal.
ClientReceive(c) ==
    /\ link[c] = "up"
    /\ Len(view[c]) < Len(out[c])
    /\ view' = [view EXCEPT ![c] = Append(@, out[c][Len(view[c]) + 1])]
    /\ UNCHANGED <<clientVars, netVars, serverVars, hostVars, browserVars>>

\* ------------------------------------------------ Terminal component events

\* The client socket of Terminal t still belongs to a live xterm: the init
\* effect ran and its cleanup (socket disconnect, term.dispose()) has not.
TerminalLive(t) == cleanupFn[t] /\ socketRef[t] # 0

\* term.onData((data) => { socketRef.current?.emit('terminal:input', data); })
\* Keys go to the visible terminal.
EmitInput(t, d) ==
    /\ TerminalLive(t)
    /\ t = activeTabId
    /\ ClientEmitInput(socketRef[t], d)

\* socketRef.current?.emit('terminal:resize', {cols: xterm.cols, rows: xterm.rows})
\* from handleResize (window resize) and from the refit effect, after
\* fitAddon.fit(): the size of an xterm is never below 1.
EmitResize(t, cols, rows) ==
    /\ TerminalLive(t)
    /\ cols >= 1
    /\ rows >= 1
    /\ ClientEmitResize(socketRef[t], cols, rows)

\* ------------------------------------------------- editor tabs (App.tsx)

\* Ids of editor tabs: 1 is the id '1' of the default tab, the others stand
\* for values of crypto.randomUUID().
EditorTabIds == 1..(MaxEditorTabs + 1)

UUIDs == EditorTabIds \ {1}

StorageKeys == {"quackshell_editor_tabs", "quackshell_active_tab", "queryHistory"}

\* localStorage.getItem of a key that was never set
NullItem == [kind |-> "null", value |-> <<>>]

\* a stored string that holds one id
StringItem(id) == [kind |-> "string", value |-> <<id>>]

\* the JSON text of an array
JSONStringify(a) == [kind |-> "array", value |-> a]

\* JSON text of something that is not an array
JSONObject == [kind |-> "object", value |-> <<>>]

\* text that is not JSON
InvalidJSON == [kind |-> "invalid", value |-> <<>>]

\* JSON.parse: throws on text that is not JSON, else gives the value back
JSONParse(item) ==
    [threw |-> item.kind \notin {"array", "object"},
     isArray |-> item.kind = "array",
     value |-> IF item.kind = "array" THEN item.value ELSE <<>>]

EmptyStorage == [k \in StorageKeys |-> NullItem]

NoTimer == [armed |-> FALSE, tabs |-> <<>>, activeTabId |-> 1]

\* setTimeout(..., 500) of the auto-save effect, with the values it closes over
Timer(ts, a) == [armed |-> TRUE, tabs |-> ts, activeTabId |-> a]

\* useState initial values of App
AppInitial ==
    /\ editorTabs = <<>>
    /\ activeEditorTabId = 1
    /\ isInitialized = FALSE
    /\ saveTimer = NoTimer

DefaultTabs == [tabs |-> <<1>>, activeTabId |-> 1]

RestoredActiveTabIdTrusting(savedActiveTab, parsed) ==
    IF savedActiveTab.kind # "null" THEN savedActiveTab.value[1] ELSE parsed[1]

RestoredActiveTabId(savedActiveTab, parsed) ==
    IF savedActiveTab.kind # "null" /\ savedActiveTab.value[1] \in Range(parsed)
    THEN savedActiveTab.value[1]
    ELSE parsed[1]

\* Does the restore effect take the saved tabs?
Restorable(savedTabs) ==
    /\ savedTabs.kind # "null"
    /\ ~JSONParse(savedTabs).threw
    /\ JSONParse(savedTabs).isArray
    /\ Len(JSONParse(savedTabs).value) > 0

\* What the restore effect sets from the storage ls
Restored(ls) ==
    LET savedTabs == ls["quackshell_editor_tabs"]
        savedActiveTab == ls["quackshell_active_tab"]
        parsed == JSONParse(savedTabs).value
    IN  IF Restorable(savedTabs)
        THEN [tabs |-> parsed, activeTabId |-> RestoredActiveTabId(savedActiveTab, parsed)]
        ELSE DefaultTabs

\* The auto-save effect after a commit: the cleanup of the previous run clears
\* its timer, then a new timer is set unless isInitialized is false.
AutoSaveEffect(ts, a, initialized) ==
    saveTimer' = IF initialized THEN Timer(ts, a) ELSE NoTimer

\* A commit of App with new tabs and active tab id, and its effects.
Commit(ts, a, initialized) ==
    /\ editorTabs' = ts
    /\ activeEditorTabId' = a
    /\ isInitialized' = initialized
    /\ AutoSaveEffect(ts, a, initialized)
    /\ UNCHANGED <<clientVars, netVars, serverVars, hostVars, view, queryVars>>

\* Mount of App: the restore effect, then the auto-save effect of the first
\* render (isInitialized is false: it returns), then the commit of the state
\* the restore effect has set.
RestoreTabs ==
    /\ ~isInitialized
    /\ Commit(Restored(localStorage).tabs, Restored(localStorage).activeTabId, TRUE)
    /\ UNCHANGED localStorage

\* The auto-save timer fires; stored is the number of setItem calls that
\* return before one throws (the catch logs it).
TimerFires(stored) ==
    /\ saveTimer.armed
    /\ saveTimer' = NoTimer
    /\ localStorage' =
         [k \in StorageKeys |->
            IF k = "quackshell_editor_tabs" /\ stored >= 1 THEN JSONStringify(saveTimer.tabs)
            ELSE IF k = "quackshell_active_tab" /\ stored >= 2 THEN StringItem(saveTimer.activeTabId)
            ELSE localStorage[k]]
    /\ UNCHANGED <<editorTabs, activeEditorTabId, isInitialized>>
    /\ UNCHANGED <<clientVars, netVars, serverVars, hostVars, view, queryVars>>

\* Ids that are in use somewhere: a new UUID differs from all of them.
UsedIds ==
    Range(editorTabs) \cup Range(saveTimer.tabs) \cup Range(localStorage["quackshell_editor_tabs"].value)
    \cup Range(localStorage["quackshell_active_tab"].value)

AddQueryTab ==
    /\ isInitialized
    /\ Len(editorTabs) < MaxEditorTabs
    /\ \E newId \in UUIDs \ UsedIds : Commit(Append(editorTabs, newId), newId, isInitialized)
    /\ UNCHANGED localStorage

CloseQueryTab(idToRemove) ==
    /\ idToRemove \in Range(editorTabs)
    /\ Len(editorTabs) # 1
    /\ LET newTabs == FilterOut(editorTabs, idToRemove)
       IN  Commit(newTabs, IF activeEditorTabId = idToRemove THEN newTabs[Len(newTabs)] ELSE activeEditorTabId, isInitialized)
    /\ UNCHANGED localStorage

\* onSelectTab={setActiveTabId}
SelectQueryTab(id) ==
    /\ id \in Range(editorTabs)
    /\ id # activeEditorTabId
    /\ Commit(editorTabs, id, isInitialized)
    /\ UNCHANGED localStorage

\* A drag that starts on one of the editor tabs and is dropped on another.
HandleReorderTabs(sourceIndex, targetIndex) ==
    /\ sourceIndex + 1 \in DOMAIN editorTabs
    /\ targetIndex + 1 \in DOMAIN editorTabs
    /\ sourceIndex # targetIndex
    /\ Commit(SpliceIn(SpliceOut(editorTabs, sourceIndex), targetIndex, editorTabs[sourceIndex + 1]), activeEditorTabId, isInitialized)
    /\ UNCHANGED localStorage

\* --------------------------------------------- query editor (QueryEditor.tsx)

\* Query texts, as numbers: the texts of a full history are 1..HistoryLimit.
Queries == {1, HistoryLimit} \cup (HistoryLimit + 1)..(HistoryLimit + MaxNewQueries)

\* data.rows.length of a response
RowCounts == {0, 1, MaxRows}

RowsPerPageOptions == {50, 100, 500, 1000}

\* useState<any[] | null>(null)
NullResults == [null |-> TRUE, length |-> 0, ref |-> 0]

\* An array of n rows that is not the array old (ref tells two arrays apart).
NewArray(n, old) == [null |-> FALSE, length |-> n, ref |-> 1 - old.ref]

\* useState initial values of QueryEditor; sql is the prop of the tab
QueryEditorInitial ==
    /\ results = NullResults
    /\ error = "null"
    /\ currentPage = 1
    /\ rowsPerPage = DefaultRowsPerPage
    /\ sql = 1

\* Math.ceil(results.length / rowsPerPage), 0 when results is null
TotalPages(res, perPage) ==
    IF res.null THEN 0 ELSE (res.length + perPage - 1) \div perPage

totalPages == TotalPages(results, rowsPerPage)

\* Array.prototype.slice(0, n)
Slice(s, n) == SubSeq(s, 1, IF Len(s) < n THEN Len(s) ELSE n)

NewHistoryKeepsDuplicates(querySql, history) ==
    Slice(<<querySql>> \o history, HistoryLimit)

\* [querySql, ...history.filter(h => h !== querySql)].slice(0, 50)
NewHistory(querySql, history) ==
    Slice(<<querySql>> \o FilterOut(history, querySql), HistoryLimit)

\* JSON.parse(localStorage.getItem('queryHistory') || '[]')
StoredHistory(ls) ==
    IF ls["queryHistory"].kind = "null" THEN <<>> ELSE JSONParse(ls["queryHistory"]).value

SaveToHistory(querySql) ==
    localStorage' = [localStorage EXCEPT !["queryHistory"] =
                        JSONStringify(NewHistory(querySql, StoredHistory(localStorage)))]

ResetPageEffectMissing(old, new, page) == page

\* useEffect(() => setCurrentPage(1), [results]): runs when results is
\* another value than in the previous render
ResetPageEffect(old, new, page) == IF new # old THEN 1 ELSE page

\* The editor text changes (setSql).
SetSql(q) ==
    /\ q # sql
    /\ sql' = q
    /\ UNCHANGED <<results, error, currentPage, rowsPerPage, localStorage, appVars>>
    /\ UNCHANGED <<clientVars, netVars, serverVars, hostVars, view>>

\* runQuery, the response holding rows: n of them.
QueryReturnsRows(n) ==
    /\ results' = NewArray(n, results)
    /\ error' = "null"
    /\ SaveToHistory(sql)
    /\ currentPage' = ResetPageEffect(results, results', currentPage)
    /\ UNCHANGED <<sql, rowsPerPage, appVars>>
    /\ UNCHANGED <<clientVars, netVars, serverVars, hostVars, view>>

\* runQuery, the response holding an error.
QueryReturnsError ==
    /\ results' = NullResults
    /\ error' = "data.error"
    /\ currentPage' = ResetPageEffect(results, results', currentPage)
    /\ UNCHANGED <<sql, rowsPerPage, localStorage, appVars>>
    /\ UNCHANGED <<clientVars, netVars, serverVars, hostVars, view>>

\* runQuery, fetch or res.json() throwing.
QueryFails ==
    /\ error' = "message"
    /\ UNCHANGED <<results, sql, currentPage, rowsPerPage, localStorage, appVars>>
    /\ UNCHANGED <<clientVars, netVars, serverVars, hostVars, view>>

\* The pagination controls are rendered when results holds rows.
ControlsShown == ~results.null /\ results.length > 0

PreviousPage ==
    /\ ControlsShown
    /\ currentPage # 1
    /\ currentPage' = (IF currentPage - 1 < 1 THEN 1 ELSE currentPage - 1)
    /\ UNCHANGED <<results, error, sql, rowsPerPage, localStorage, appVars>>
    /\ UNCHANGED <<clientVars, netVars, serverVars, hostVars, view>>

NextPage ==
    /\ ControlsShown
    /\ currentPage # totalPages
    /\ currentPage' = (IF currentPage + 1 > totalPages THEN totalPages ELSE currentPage + 1)
    /\ UNCHANGED <<results, error, sql, rowsPerPage, localStorage, appVars>>
    /\ UNCHANGED <<clientVars, netVars, serverVars, hostVars, view>>

\* onChange of the rows select
SetRowsPerPage(size) ==
    /\ ControlsShown
    /\ size # rowsPerPage
    /\ rowsPerPage' = size
    /\ currentPage' = 1
    /\ UNCHANGED <<results, error, sql, localStorage, appVars>>
    /\ UNCHANGED <<clientVars, netVars, serverVars, hostVars, view>>

\* ------------------------------------------------------- specifications

\* No page is open: the App and QueryEditor state as useState creates it, and
\* an empty localStorage.
NoPage ==
    /\ AppInitial
    /\ QueryEditorInitial
    /\ localStorage = EmptyStorage


ServerStep ==
    \/ \E c \in Conns : Connection(c)
    \/ \E c \in Conns : Deliver(c)
    \/ \E c \in Conns : OnDisconnect(c)
    \/ \E c \in Conns : ShellExit(c)

\* The server and any socket.io clients (the server accepts every origin).
NoUI ==
    /\ tabs = <<>>
    /\ activeTabId = 0
    /\ nextId = 1
    /\ initializedRef = [t \in TabIds |-> FALSE]
    /\ socketRef = [t \in TabIds |-> 0]
    /\ cleanupFn = [t \in TabIds |-> FALSE]

ServerInit ==
    /\ serverUp = TRUE
    /\ conn = [c \in Conns |-> "none"]
    /\ ptyProcess = [c \in Conns |-> "undefined"]
    /\ handlers = [c \in Conns |-> FALSE]
    /\ geom = [c \in Conns |-> NoGeometry]
    /\ written = [c \in Conns |-> <<>>]
    /\ out = [c \in Conns |-> <<>>]
    /\ killCalls = [c \in Conns |-> 0]
    /\ log = [c \in Conns |-> <<>>]
    /\ spawnArgs = [c \in Conns |-> NoSpawn]
    /\ view = [c \in Conns |-> <<>>]
    \* process.chdir(UPLOADS_DIR_NAME) at start-up
    /\ cwd = "uploads"
    /\ response = NoResponse

\* One host: a Unix-like system with SHELL set.
OneHost ==
    /\ envShell = "/bin/bash"
    /\ platform = "linux"

Init ==
    /\ NoUI
    /\ link = [c \in Conns |-> "none"]
    /\ netIn = [c \in Conns |-> <<>>]
    /\ nextConn = 1
    /\ ServerInit
    /\ NoPage
    /\ OneHost

Next ==
    \/ ServerStep
    \/ Buffered < MaxChunks /\ \E c \in Conns : \E d \in Chunks : ShellOutput(c, d)
    \/ \E c \in Conns : ClientReceive(c)
    \/ ClientConnect
    \/ Buffered < MaxChunks /\ \E c \in Conns : \E d \in Chunks : ClientEmitInput(c, d)
    \/ Buffered < MaxChunks /\ \E c \in Conns : \E cols \in ColsSet : \E rows \in RowsSet : ClientEmitResize(c, cols, rows)
    \/ \E c \in Conns : ConnectionLost(c)

Spec == Init /\ [][Next]_vars

\* The terminal tabs of one browser page and the server.
UIInit ==
    \* TerminalTabs: useState([{id: '1'}]), useState('1'); the first Terminal is
    \* mounted with active = true, so its init effect has run: io() was called.
    /\ tabs = <<1>>
    /\ activeTabId = 1
    /\ nextId = 2
    /\ initializedRef = [t \in TabIds |-> t = 1]
    /\ socketRef = [t \in TabIds |-> IF t = 1 THEN 1 ELSE 0]
    /\ cleanupFn = [t \in TabIds |-> t = 1]
    /\ link = [c \in Conns |-> IF c = 1 THEN "up" ELSE "none"]
    /\ netIn = [c \in Conns |-> <<>>]
    /\ nextConn = 2
    /\ ServerInit
    /\ NoPage
    /\ OneHost

UINext ==
    \/ ServerStep
    \/ Buffered < MaxChunks /\ \E c \in Conns : \E d \in Chunks : ShellOutput(c, d)
    \/ \E c \in Conns : ClientReceive(c)
    \/ AddTab
    \/ \E t \in TabIds : RemoveTab(t)
    \/ \E t \in TabIds : SelectTab(t)
    \/ \E i \in SourceIndexes : \E j \in 0..(MaxTabs - 1) : HandleDrop(i, j)
    \/ Buffered < MaxChunks /\ \E t \in TabIds : \E d \in Chunks : EmitInput(t, d)
    \/ Buffered < MaxChunks /\ \E t \in TabIds : \E cols \in ColsSet : \E rows \in RowsSet : EmitResize(t, cols, rows)

UISpec == UIInit /\ [][UINext]_vars

\* The tab bar by itself (every drag starts on one of its own tabs), the
\* sockets its Terminals open and the shells spawned for them, without
\* terminal traffic.
TabNext ==
    \/ \E c \in Conns : Connection(c)
    \/ AddTab
    \/ \E t \in TabIds : RemoveTab(t)
    \/ \E t \in TabIds : SelectTab(t)
    \/ \E i \in DOMAIN tabs : \E j \in DOMAIN tabs : HandleDrop(i - 1, j - 1)

TabSpec == UIInit /\ [][TabNext]_vars

\* One connection and the stream of chunks in each direction.
StreamConn == 1

StreamInit ==
    /\ NoUI
    /\ link = [c \in Conns |-> IF c = StreamConn THEN "up" ELSE "none"]
    /\ netIn = [c \in Conns |-> <<>>]
    /\ nextConn = StreamConn + 1
    /\ ServerInit
    /\ NoPage
    /\ OneHost

StreamNext ==
    \/ Connection(StreamConn)
    \/ Deliver(StreamConn)
    \/ OnDisconnect(StreamConn)
    \/ ShellExit(StreamConn)
    \/ Buffered < MaxStream /\ \E d \in Markers : ShellOutput(StreamConn, d)
    \/ ClientReceive(StreamConn)
    \/ Buffered < MaxStream /\ \E d \in Markers : ClientEmitInput(StreamConn, d)
    \/ Buffered < MaxStream /\ \E cols \in ColsSet : \E rows \in RowsSet : ClientEmitResize(StreamConn, cols, rows)
    \/ ConnectionLost(StreamConn)

StreamSpec == StreamInit /\ [][StreamNext]_vars

\* The host the server runs on: any environment, and the working directory
\* changed through /api/cwd while connections come and go.
HostInit ==
    /\ NoUI
    /\ link = [c \in Conns |-> "none"]
    /\ netIn = [c \in Conns |-> <<>>]
    /\ nextConn = 1
    /\ ServerInit
    /\ NoPage
    /\ envShell \in EnvShells
    /\ platform \in Platforms

HostNext ==
    \/ \E c \in Conns : Connection(c)
    \/ \E c \in Conns : OnDisconnect(c)
    \/ ClientConnect
    \/ \E c \in Conns : ConnectionLost(c)
    \/ \E newPath \in RequestPaths : ChangeDir(newPath)

HostSpec == HostInit /\ [][HostNext]_vars

\* What localStorage may hold for the editor tabs when the page is loaded.
SavedTabsItems ==
    {NullItem, InvalidJSON, JSONObject, JSONStringify(<<>>), JSONStringify(<<1>>), JSONStringify(<<2, 3>>)}

SavedActiveTabItems == {NullItem, StringItem(1), StringItem(3)}

\* The page is loaded again: React state is created anew, localStorage stays.
Reload ==
    /\ isInitialized
    /\ editorTabs' = <<>>
    /\ activeEditorTabId' = 1
    /\ isInitialized' = FALSE
    /\ saveTimer' = NoTimer
    /\ UNCHANGED <<localStorage, queryVars>>
    /\ UNCHANGED <<clientVars, netVars, serverVars, hostVars, view>>

\* The editor tabs of one page, their auto-save and their restoration.
AppInit ==
    /\ NoUI
    /\ link = [c \in Conns |-> "none"]
    /\ netIn = [c \in Conns |-> <<>>]
    /\ nextConn = 1
    /\ ServerInit
    /\ OneHost
    /\ AppInitial
    /\ QueryEditorInitial
    /\ \E t \in SavedTabsItems : \E a \in SavedActiveTabItems :
         localStorage = [k \in StorageKeys |->
                           IF k = "quackshell_editor_tabs" THEN t
                           ELSE IF k = "quackshell_active_tab" THEN a
                           ELSE NullItem]

AppNext ==
    \/ RestoreTabs
    \/ \E stored \in 0..2 : TimerFires(stored)
    \/ AddQueryTab
    \/ \E id \in EditorTabIds : CloseQueryTab(id)
    \/ \E id \in EditorTabIds : SelectQueryTab(id)
    \/ \E i \in 0..(MaxEditorTabs - 1) : \E j \in 0..(MaxEditorTabs - 1) : HandleReorderTabs(i, j)
    \/ Reload

AppSpec == AppInit /\ [][AppNext]_vars

\* A history that holds as many queries as it can.
FullHistory == [i \in 1..HistoryLimit |-> i]

\* One query editor and the query history in localStorage.
QueryInit ==
    /\ NoUI
    /\ link = [c \in Conns |-> "none"]
    /\ netIn = [c \in Conns |-> <<>>]
    /\ nextConn = 1
    /\ ServerInit
    /\ OneHost
    /\ AppInitial
    /\ QueryEditorInitial
    /\ localStorage \in {EmptyStorage, [EmptyStorage EXCEPT !["queryHistory"] = JSONStringify(FullHistory)]}

QueryNext ==
    \/ \E q \in Queries : SetSql(q)
    \/ \E n \in RowCounts : QueryReturnsRows(n)
    \/ QueryReturnsError
    \/ QueryFails
    \/ PreviousPage
    \/ NextPage
    \/ \E size \in RowsPerPageOptions : SetRowsPerPage(size)

QuerySpec == QueryInit /\ [][QueryNext]_vars

\* ------------------------------------------------------------ properties

\* What the server holds for connection c.
Sess(c) == <<conn[c], ptyProcess[c], handlers[c], geom[c], written[c], out[c], killCalls[c], log[c]>>

SpawnHasFailed(c) == conn[c] = "open" /\ ptyProcess[c] = "undefined"

\* This step is the server handling the packet at the head of c's queue.
Handles(c, type) ==
    /\ serverUp
    /\ conn[c] = "open"
    /\ netIn[c] # <<>>
    /\ Head(netIn[c]).type = type
    /\ netIn'[c] \in {Tail(netIn[c]), <<>>}
    /\ ~(serverUp' /\ conn'[c] = "closed")

\* This step is the 'disconnect' handler of connection c.
TeardownStep(c) == log'[c] = Append(log[c], "disconnected")

\* C1: whenever a connection has ended, exactly one kill request has been
\* issued for the shell process spawned for it.
C1_KillIssuedOnEveryEnd ==
    \A c \in Conns :
        (conn[c] = "closed" /\ ptyProcess[c] # "undefined") => killCalls[c] = 1

\* C2: a tab operation (add, select, reorder, remove of another tab) never
\* disconnects the session of a tab that stays open: an initialized tab whose
\* socket is connected still has it connected afterwards.
C2_BackgroundTabsKeepSession ==
    [][\A t \in TabIds :
          ( /\ Mounted(tabs, t)
            /\ Mounted(tabs', t)
            /\ initializedRef[t]
            /\ socketRef[t] # 0
            /\ link[socketRef[t]] = "up"
            /\ <<tabs, activeTabId>> # <<tabs', activeTabId'>> )
          => (socketRef'[t] # 0 /\ link'[socketRef'[t]] = "up")]_vars

\* C3: with three open terminal sessions, closing one ends exactly one
\* session, and the two that remain are still running (socket connected, shell
\* not dead).
C3_CloseOneOfThree ==
    [][( /\ Len(tabs) = 3
         /\ Len(tabs') = 2
         /\ \A t \in Range(tabs) : initializedRef[t] )
       => ( /\ Cardinality({c \in Conns : link[c] = "up" /\ link'[c] = "down"}) = 1
            /\ \A t \in Range(tabs') :
                  /\ socketRef'[t] # 0
                  /\ link'[socketRef'[t]] = "up"
                  /\ ptyProcess'[socketRef'[t]] \in {"undefined", "alive"} )]_vars

\* C4: a resize event with cols < 1 or rows < 1 for a running session leaves
\* its geometry as it was, raises no error and leaves the session running.
C4_RejectedResizeIgnored ==
    [][\A c \in Conns :
          ( /\ Handles(c, "resize")
            /\ handlers[c]
            /\ ptyProcess[c] = "alive"
            /\ (Head(netIn[c]).cols < 1 \/ Head(netIn[c]).rows < 1) )
          => ( /\ serverUp'
               /\ geom'[c] = geom[c]
               /\ ptyProcess'[c] = "alive" )]_vars

\* C5: when the spawn fails for a connection, the diagnostic is on that
\* connection's output stream, the session has no process and no input or
\* resize handling (no step gives it a process, a geometry or written input),
\* and the step of the failure changes no other session.
C5_SpawnFailureIsLocal ==
    /\ [](\A c \in Conns : SpawnHasFailed(c) =>
            /\ out[c] = <<SpawnDiagnostic>>
            /\ ~handlers[c]
            /\ geom[c] = NoGeometry
            /\ written[c] = <<>>)
    /\ [][\A c \in Conns :
            /\ SpawnHasFailed(c) =>
                  /\ ptyProcess'[c] = "undefined"
                  /\ ~handlers'[c]
                  /\ geom'[c] = NoGeometry
                  /\ written'[c] = <<>>
            /\ (conn[c] = "none" /\ SpawnHasFailed(c)') =>
                  \A k \in Conns \ {c} : Sess(k)' = Sess(k)]_vars

\* C5 witness: a connection whose spawn failed, with its diagnostic, beside a
\* sibling that runs with a geometry of its own.
C5_Witness ==
    \E c \in Conns : \E k \in Conns \ {c} :
        /\ SpawnHasFailed(c)
        /\ out[c] = <<SpawnDiagnostic>>
        /\ conn[k] = "open"
        /\ ptyProcess[k] = "alive"
        /\ geom[k] # <<DefaultCols, DefaultRows>>

\* C6: every live session (connection open, input and resize handlers
\* registered) has a live process.
C6_LiveSessionHasLiveProcess ==
    \A c \in Conns :
        (serverUp /\ conn[c] = "open" /\ handlers[c]) => ptyProcess[c] = "alive"

\* C7: an input or resize event for a session without a live process (spawn
\* failed, process exited or killed) is a no-op: the server's state does not
\* change and no error is raised.
C7_EventsAfterTerminationAreNoOps ==
    [][\A c \in Conns :
          ( /\ Handles(c, "input") \/ Handles(c, "resize")
            /\ ptyProcess[c] # "alive" )
          => ( /\ serverUp'
               /\ \A k \in Conns : Sess(k)' = Sess(k) )]_vars

\* C8: teardown is issued at most once per session, and on a session whose
\* process had already exited it is a no-op on the process: no error, the
\* process stays as it exited, no other session changes, and the session ends
\* in the same state as one closed once.
C8_CloseTwiceLikeOnce ==
    /\ [](\A c \in Conns :
            /\ killCalls[c] <= 1
            /\ "disconnected" \in Range(log[c]) =>
                  /\ conn[c] = "closed"
                  /\ killCalls[c] = 1
                  /\ ptyProcess[c] \in {"exited", "killed"}
                  /\ log[c] = <<"connected", "spawning", "disconnected">>
                  /\ geom[c] = NoGeometry
                  /\ written[c] = <<>>
                  /\ out[c] = <<>>)
    /\ [][\A c \in Conns :
            (TeardownStep(c) /\ ptyProcess[c] = "exited") =>
                /\ serverUp'
                /\ ptyProcess'[c] = "exited"
                /\ \A k \in Conns \ {c} : Sess(k)' = Sess(k)]_vars

\* C8 witness: a session whose shell exited by itself and which was then torn
\* down by the disconnect of its connection.
C8_Witness ==
    \E c \in Conns :
        /\ serverUp
        /\ conn[c] = "closed"
        /\ ptyProcess[c] = "exited"
        /\ killCalls[c] = 1

\* C9: an input or resize event for a session without a live process is
\* reported (a log line or a message to the client) and raises no error.
C9_StaleEventsAreReported ==
    [][\A c \in Conns :
          ( /\ Handles(c, "input") \/ Handles(c, "resize")
            /\ ptyProcess[c] # "alive" )
          => ( /\ serverUp'
               /\ (log'[c] # log[c] \/ out'[c] # out[c]) )]_vars

\* C10: a process-level failure in one session (spawn failure, shell exit,
\* write to a dead process, rejected resize) changes no sibling session.
C10_FailuresStayLocal ==
    [][\A c \in Conns :
          ( \/ conn[c] = "none" /\ SpawnHasFailed(c)'
            \/ ptyProcess[c] = "alive" /\ ptyProcess'[c] = "exited"
            \/ Handles(c, "input") /\ ptyProcess[c] # "alive"
            \/ /\ Handles(c, "resize")
               /\ handlers[c]
               /\ (Head(netIn[c]).cols < 1 \/ Head(netIn[c]).rows < 1) )
          => \A k \in Conns \ {c} : Sess(k)' = Sess(k)]_vars

\* C11: nothing is shared across connections. An input or resize event of
\* connection c delivers nothing to the process of another connection k (k's
\* process reads no new input and gets no new size); an output event appears
\* on socket k only when k's own process is alive to produce it or k's own
\* spawn fails, and on one socket at a time; a client socket writes to its
\* terminal only what was emitted on its own connection; and the disconnect
\* of c sends no kill to, and ends, no process but c's.
C11_NoSharingAcrossConnections ==
    [][\A c \in Conns : \A k \in Conns \ {c} :
          /\ (Handles(c, "input") \/ Handles(c, "resize")) =>
                /\ written'[k] \in {written[k], <<>>}
                /\ geom'[k] \in {geom[k], NoGeometry}
          /\ (Handles(c, "input") /\ handlers[c] /\ ptyProcess[c] = "alive" /\ serverUp') =>
                written'[c] = Append(written[c], Head(netIn[c]).data)
          /\ Len(out'[c]) > Len(out[c]) =>
                /\ ptyProcess[c] = "alive" \/ SpawnHasFailed(c)'
                /\ out'[k] = out[k]
          /\ Len(view'[c]) > Len(view[c]) =>
                /\ view'[c] = SubSeq(out[c], 1, Len(view'[c]))
                /\ view'[k] = view[k]
          /\ TeardownStep(c) =>
                /\ killCalls'[c] = killCalls[c] + 1
                /\ killCalls'[k] = killCalls[k]
                /\ ptyProcess'[k] = ptyProcess[k]
                /\ Sess(k)' = Sess(k)]_vars

\* C11 witness: connection c has been torn down with its one kill, and its
\* sibling k is alive and has read the input sent on k.
C11_Witness ==
    \E c \in Conns : \E k \in Conns \ {c} :
        /\ conn[c] = "closed"
        /\ killCalls[c] = 1
        /\ killCalls[k] = 0
        /\ conn[k] = "open"
        /\ ptyProcess[k] = "alive"
        /\ written[k] = <<"a">>

\* C12: for one session the chunks reach the client's terminal in the order
\* the shell produced them: what the terminal has been written is always a
\* prefix of what the shell's data events emitted on the socket, the emitted
\* sequence only grows at its end, and the terminal only by the next chunk.
C12_OutputInOrder ==
    /\ [](\A c \in Conns :
            /\ Len(view[c]) <= Len(out[c])
            /\ view[c] = SubSeq(out[c], 1, Len(view[c])))
    /\ [][\A c \in Conns :
            /\ \/ out'[c] = out[c]
               \/ out'[c] = <<>>
               \/ \E d \in Markers \cup {SpawnDiagnostic} : out'[c] = Append(out[c], d)
            /\ \/ view'[c] = view[c]
               \/ view'[c] = <<>>
               \/ view'[c] = Append(view[c], out[c][Len(view[c]) + 1])]_vars

\* C12 witness: the shell produced two distinct chunks and the terminal has
\* been written both.
C12_Witness ==
    /\ out[StreamConn] = <<"b", "a">>
    /\ view[StreamConn] = <<"b", "a">>

\* The payloads of the input events in a queue of packets, in queue order.
RECURSIVE InputsOf(_)
InputsOf(q) ==
    IF q = <<>> THEN <<>>
    ELSE IF Head(q).type = "input" THEN <<Head(q).data>> \o InputsOf(Tail(q))
         ELSE InputsOf(Tail(q))

\* The input of connection c in the order its shell reads it: what was
\* written to the process, then what is still on its way.
InputStream(c) == written[c] \o InputsOf(netIn[c])

\* C13: the input chunks a client sends for one session are written to the
\* session's process in the order sent. While the session is not dead (not
\* yet connected, or its shell alive), the input stream of the connection
\* changes only by a newly sent chunk at its end: the server moving a chunk
\* from the connection to the process never reorders, drops or repeats one.
C13_InputInOrder ==
    [][\A c \in Conns :
          ( /\ conn[c] = "none" \/ ptyProcess[c] = "alive"
            /\ conn'[c] = "none" \/ ptyProcess'[c] = "alive" )
          => \/ InputStream(c)' = InputStream(c)
             \/ \E d \in Markers : InputStream(c)' = Append(InputStream(c), d)]_vars

\* C13 witness: two distinct markers were sent as separate input events and
\* the shell has been written both.
C13_Witness ==
    /\ ptyProcess[StreamConn] = "alive"
    /\ written[StreamConn] = <<"b", "a">>

\* C14: every output event the server has emitted carries the sessionId of
\* the session whose process produced it, and the client has written its
\* bytes to the terminal of that session only.
C14_OutputTaggedWithSession ==
    \A c \in Conns :
        /\ \A i \in DOMAIN out[c] :
              LET ev == TerminalOutputEvent(c, out[c][i])
              IN  "sessionId" \in DOMAIN ev /\ ev["sessionId"] = c
        /\ view[c] = SubSeq(out[c], 1, Len(view[c]))

\* This step is the server handling the packet at the head of c's queue, and
\* no packet of another connection leaves its queue in the step.
HandlesAlone(c, type) ==
    /\ Handles(c, type)
    /\ \A k \in Conns \ {c} : netIn'[k] = netIn[k]

\* C15: for every (cols, rows) with both at least 1, when the server has
\* handled a resize event for a running session, the geometry of the
\* session's PTY is exactly (cols, rows), and the session still runs.
C15_ValidResizeSetsGeometry ==
    [][\A c \in Conns :
          ( /\ HandlesAlone(c, "resize")
            /\ handlers[c]
            /\ ptyProcess[c] = "alive"
            /\ Head(netIn[c]).cols >= 1
            /\ Head(netIn[c]).rows >= 1 )
          => ( /\ geom'[c] = <<Head(netIn[c]).cols, Head(netIn[c]).rows>>
               /\ serverUp'
               /\ ptyProcess'[c] = "alive" )]_vars

\* C15 witness: a running session whose PTY has the size of a resize event.
C15_Witness ==
    \E c \in Conns :
        /\ serverUp
        /\ conn[c] = "open"
        /\ ptyProcess[c] = "alive"
        /\ geom[c] \in (ColsSet \ {0}) \X (RowsSet \ {0})

\* Queue q is queue p with packets added at its end, or p itself.
Extends(q, p) == Len(p) <= Len(q) /\ SubSeq(q, 1, Len(p)) = p

\* C16: the handlers of a session are registered in the step that creates
\* it. A session with a process always has its handlers; while a connection
\* has no session yet and the server runs, the events sent on it wait in
\* order, none processed and none lost; the step that creates the session
\* takes none of them; and
\* no event of a session with a process ever leaves the queue without the
\* handlers being registered.
C16_RegistrationWithCreation ==
    /\ [](\A c \in Conns :
            conn[c] = "open" => (handlers[c] <=> ptyProcess[c] # "undefined"))
    /\ [][\A c \in Conns :
            /\ (conn[c] = "none" /\ serverUp') => Extends(netIn'[c], netIn[c])
            /\ (conn[c] = "none" /\ conn'[c] = "open") =>
                  /\ netIn'[c] = netIn[c]
                  /\ written'[c] = <<>>
                  /\ ptyProcess'[c] = "alive" => handlers'[c]
            /\ ( /\ Handles(c, "input") \/ Handles(c, "resize")
                 /\ ptyProcess[c] # "undefined" )
               => handlers[c]]_vars

\* C16 witness: a session has just been created (nothing written to its
\* shell yet), its handlers are registered, and an event for it waits in the
\* connection's queue.
C16_Witness ==
    \E c \in Conns :
        /\ conn[c] = "open"
        /\ ptyProcess[c] = "alive"
        /\ handlers[c]
        /\ written[c] = <<>>
        /\ geom[c] = <<DefaultCols, DefaultRows>>
        /\ netIn[c] # <<>>

\* C17: each shell is spawned in the working directory the server has at the
\* time of the spawn, and a change of the server's working directory changes
\* the working directory of no session that exists: it shows only in the
\* spawns that follow.
C17_ChdirOnlyForLaterSpawns ==
    [][/\ \A c \in Conns :
            (conn[c] = "none" /\ conn'[c] = "open") => spawnArgs'[c].cwd = cwd
       /\ cwd' # cwd =>
            /\ spawnArgs' = spawnArgs
            /\ ptyProcess' = ptyProcess
       /\ \A c \in Conns :
            conn[c] # "none" => spawnArgs'[c] = spawnArgs[c]]_vars

\* C17 witness: a shell spawned before a change of directory runs in the old
\* directory beside one spawned after it in the new one.
C17_Witness ==
    \E c \in Conns : \E k \in Conns \ {c} :
        /\ ptyProcess[c] = "alive"
        /\ ptyProcess[k] = "alive"
        /\ spawnArgs[c].cwd = "uploads"
        /\ spawnArgs[k].cwd = "/tmp"
        /\ cwd = "/tmp"

\* Shells of the two kinds of platform.
WindowsShells == {"powershell.exe", "cmd.exe"}
PosixShellPaths == {"/bin/sh", "/bin/bash", "/bin/zsh"}

\* C19: the shell of a spawn is the SHELL of the environment when that is
\* set (to a non-empty value), otherwise the platform default: a Windows
\* shell on win32, a POSIX shell path everywhere else. It is chosen with the
\* spawn and never changes.
C19_ShellSelection ==
    /\ [](\A c \in Conns : conn[c] # "none" =>
            LET file == spawnArgs[c].file
                isSet == envShell \notin {"undefined", ""}
            IN  /\ isSet => file = envShell
                /\ (~isSet /\ platform = "win32") => file \in WindowsShells
                /\ (~isSet /\ platform # "win32") => file \in PosixShellPaths)
    /\ [][\A c \in Conns :
            /\ conn[c] # "none" => spawnArgs'[c].file = spawnArgs[c].file
            /\ conn'[c] = "none" => spawnArgs'[c] = NoSpawn]_vars

\* C19 witness: a shell spawned from the override of the environment on a
\* platform whose default is another shell.
C19_Witness ==
    \E c \in Conns :
        /\ ptyProcess[c] = "alive"
        /\ envShell = "/bin/bash"
        /\ platform = "win32"
        /\ spawnArgs[c].file = "/bin/bash"

\* C18: payloads pass unmodified in both directions. What the shell has read
\* is made of the very payloads the client sent, what the socket emitted and
\* the terminal was written of the very chunks the shell produced (or the
\* spawn diagnostic); the server writes the payload of an input event to the
\* process as it received it, and the client's listener writes the payload
\* of an output event to the terminal as it received it.
C18_PayloadsUnmodified ==
    /\ [](\A c \in Conns :
            /\ Range(written[c]) \subseteq Markers
            /\ Range(out[c]) \subseteq Markers \cup {SpawnDiagnostic}
            /\ Range(view[c]) \subseteq Range(out[c]))
    /\ [][\A c \in Conns :
            /\ written'[c] \notin {written[c], <<>>} =>
                  /\ netIn[c] # <<>>
                  /\ written'[c] = Append(written[c], Head(netIn[c]).data)
            /\ view'[c] \notin {view[c], <<>>} =>
                  view'[c] = Append(view[c], out[c][Len(view[c]) + 1])]_vars

\* C18 witness: the shell has read a payload the client sent and the
\* terminal has been written a chunk the shell produced.
C18_Witness ==
    /\ written[StreamConn] = <<"a">>
    /\ out[StreamConn] = <<"b">>
    /\ view[StreamConn] = <<"b">>

\* The state of the session of connection c: no session before a client
\* opens the socket; Starting from then until the connection callback has
\* called pty.spawn; Running while the spawned shell lives; Terminated when
\* the spawn failed or the shell has exited or was killed.
SessionState(c) ==
    IF ptyProcess[c] = "alive" THEN "Running"
    ELSE IF ptyProcess[c] \in {"exited", "killed"} \/ conn[c] # "none" THEN "Terminated"
    ELSE IF link[c] # "none" THEN "Starting"
    ELSE "None"

\* C20: a session moves only from Starting to Running to Terminated, or from
\* Starting straight to Terminated when the spawn fails, and never leaves
\* Terminated.
C20_SessionStateMachine ==
    [][\A c \in Conns :
          LET from == SessionState(c)
              to == SessionState(c)'
          IN  \/ to = from
              \/ from = "None" /\ to = "Starting"
              \/ from = "Starting" /\ to = "Running"
              \/ from = "Starting" /\ to = "Terminated" /\ SpawnHasFailed(c)'
              \/ from = "Running" /\ to = "Terminated"]_vars

\* C20 witness: one session ended by a failed spawn and another that ran and
\* then terminated, with events still arriving for it.
C20_Witness ==
    \E c \in Conns : \E k \in Conns \ {c} :
        /\ SpawnHasFailed(c)
        /\ conn[k] = "open"
        /\ ptyProcess[k] = "exited"
        /\ netIn[k] # <<>>

\* Connections whose shell process lives and has not been sent a kill, and
\* connections that are open.
UnkilledShells == {c \in Conns : ptyProcess[c] = "alive" /\ killCalls[c] = 0}
OpenConnections == {c \in Conns : serverUp /\ conn[c] = "open"}

\* C21: a connection spawns its one shell in the step that opens it and
\* never another: a shell comes to life only in that step, with the spawn
\* arguments of that step, which never change afterwards. Hence the shells
\* that live without having been sent a kill are never more than the open
\* connections, each being the shell of an open connection.
C21_OneShellPerConnection ==
    /\ [](/\ Cardinality(UnkilledShells) <= Cardinality(OpenConnections)
          /\ UnkilledShells \subseteq OpenConnections
          /\ \A c \in Conns : conn[c] = "none" =>
                (ptyProcess[c] = "undefined" /\ spawnArgs[c] = NoSpawn))
    /\ [][\A c \in Conns :
            /\ (ptyProcess[c] # "alive" /\ ptyProcess'[c] = "alive") =>
                  (conn[c] = "none" /\ conn'[c] = "open" /\ spawnArgs[c] = NoSpawn)
            /\ conn[c] # "none" =>
                  (conn'[c] # "none" /\ spawnArgs'[c] = spawnArgs[c])]_vars

\* C21 witness: one connection is closed and its shell killed by the one
\* kill request, while the other connection is open with its shell alive.
C21_Witness ==
    \E c \in Conns : \E k \in Conns \ {c} :
        /\ conn[c] = "closed"
        /\ ptyProcess[c] = "killed"
        /\ killCalls[c] = 1
        /\ UnkilledShells = {k}
        /\ OpenConnections = {k}

\* C22: a Terminal initializes once, when it first becomes active. The
\* sockets opened so far are never more than the tabs created so far; a tab
\* gets a socket only in a step that makes it the active tab, having had
\* none and not being initialized; the socket a tab has is never replaced by
\* another; and a tab that is not initialized holds no socket.
C22_TerminalInitializesOnce ==
    /\ [](/\ nextConn <= nextId
          /\ \A t \in TabIds : ~initializedRef[t] => socketRef[t] = 0
          /\ \A t \in TabIds : \A u \in TabIds \ {t} :
                socketRef[t] # 0 => socketRef[u] # socketRef[t])
    /\ [][\A t \in TabIds :
            /\ (socketRef'[t] # 0 /\ socketRef'[t] # socketRef[t]) =>
                  /\ socketRef[t] = 0
                  /\ ~initializedRef[t]
                  /\ activeTabId' = t
                  /\ socketRef'[t] = nextConn
                  /\ nextConn' = nextConn + 1
            /\ (initializedRef[t] /\ Mounted(tabs', t)) =>
                  /\ initializedRef'[t]
                  /\ socketRef'[t] = socketRef[t]
            /\ nextConn' # nextConn => nextId' # nextId]_vars

\* C22 witness: an initialized tab went to the background (its cleanup ran)
\* and is the active tab again, still with the one socket it opened.
C22_Witness ==
    \E t \in TabIds :
        /\ activeTabId = t
        /\ Len(tabs) >= 2
        /\ initializedRef[t]
        /\ ~cleanupFn[t]
        /\ socketRef[t] # 0
        /\ nextConn = nextId

\* C23: when an initialized background tab becomes the active tab, its
\* terminal is live again and its socket connected, so that the resize event
\* of the refit reaches the tab's own session.
C23_RefitReachesSession ==
    [][\A t \in TabIds :
          ( /\ Mounted(tabs, t)
            /\ Mounted(tabs', t)
            /\ initializedRef[t]
            /\ activeTabId # t
            /\ activeTabId' = t )
          => ( /\ TerminalLive(t)'
               /\ link'[socketRef'[t]] = "up" )]_vars

\* C24: the tab list always has at least one tab and no tab id twice, and
\* activeTabId is the id of a tab of the list.
C24_TabListWellFormed ==
    /\ Len(tabs) >= 1
    /\ Cardinality(Range(tabs)) = Len(tabs)
    /\ Range(tabs) \subseteq TabIds
    /\ activeTabId \in Range(tabs)

\* This step takes one tab out of a list of at least two; Removed is its id.
IsRemove == Len(tabs) >= 2 /\ \E i \in DOMAIN tabs : tabs' = SpliceOut(tabs, i - 1)
Removed == CHOOSE x \in Range(tabs) : x \notin Range(tabs')

\* C25: removing a tab that is not active leaves activeTabId and the order
\* of the remaining tabs as they were; removing the active tab makes the
\* last of the remaining tabs active; and the only tab is never removed.
C25_RemoveTab ==
    [][/\ IsRemove =>
            /\ tabs' = FilterOut(tabs, Removed)
            /\ Removed # activeTabId => activeTabId' = activeTabId
            /\ Removed = activeTabId => activeTabId' = tabs'[Len(tabs')]
       /\ Len(tabs) = 1 => Len(tabs') >= 1
       /\ Len(tabs') >= Len(tabs) - 1]_vars

\* C25 witness: the active tab was removed from the middle of three and the
\* last of the two that remain is active.
C25_Witness ==
    /\ nextId = 4
    /\ tabs = <<1, 3>>
    /\ activeTabId = 3

\* This step changes the tab list and neither adds nor removes a tab.
IsReorder ==
    /\ tabs' # tabs
    /\ ~IsRemove
    /\ ~(\E x \in TabIds : tabs' = Append(tabs, x))

\* C26: a drop only permutes the tab list: the list has the same tabs with
\* the dragged one at the target index, activeTabId is unchanged, and no
\* socket is opened or disconnected and nothing changes at the server.
C26_DropOnlyPermutes ==
    [][IsReorder =>
          /\ \E i \in DOMAIN tabs : \E j \in DOMAIN tabs :
                /\ tabs' = SpliceIn(SpliceOut(tabs, i - 1), j - 1, tabs[i])
                /\ tabs'[j] = tabs[i]
          /\ Range(tabs') = Range(tabs)
          /\ Len(tabs') = Len(tabs)
          /\ activeTabId' = activeTabId
          /\ socketRef' = socketRef
          /\ initializedRef' = initializedRef
          /\ link' = link
          /\ nextConn' = nextConn
          /\ serverVars' = serverVars]_vars

\* The request named no path, a path that does not exist, or a path that is
\* not a directory.
BadPath(path) ==
    \/ path = ""
    \/ path \notin Existing
    \/ path \notin Dirs \cup UnreadableDirs

\* C27: a change-directory request with no path, a path that does not exist
\* or a path that is not a directory is answered with an error and leaves
\* the server's working directory as it was, so that a shell spawned later
\* still starts in the previous directory.
C27_FailedChdirKeepsCwd ==
    /\ [](BadPath(response.path) /\ response # NoResponse
            => response.status \in {400, 500})
    /\ [][/\ (response' # response /\ BadPath(response'.path)) => cwd' = cwd
          /\ cwd' # cwd => (response'.path = cwd' /\ ~BadPath(cwd'))
          /\ \A c \in Conns :
                (conn[c] = "none" /\ conn'[c] = "open") =>
                    (spawnArgs'[c].cwd = cwd /\ ~BadPath(cwd))]_vars

\* C27 witness: the directory was changed, the request after that failed for
\* a path that does not exist, and a shell runs in the directory the server
\* was left in.
C27_Witness ==
    \E c \in Conns :
        /\ response = [path |-> "/nowhere", status |-> 500]
        /\ cwd = "/tmp"
        /\ ptyProcess[c] = "alive"
        /\ spawnArgs[c].cwd = "/tmp"

\* The saved editor tabs and the saved active tab id, as getItem returns them.
SavedTabs == localStorage["quackshell_editor_tabs"]

SavedActiveTab == localStorage["quackshell_active_tab"]

\* This step is the restoration that completes the initialization of App.
IsRestore == ~isInitialized /\ isInitialized'

\* C28: the saved editor tabs are written only once initialization has
\* completed, and then with the current list, which is never empty; the
\* restoration leaves a list of at least one tab with the active id among
\* them, and when the saved tabs are a non-empty array it takes them and makes
\* the saved active id active if one of them has it, the first of them if
\* not; from then on the active id is always the id of one of the tabs.
C28_NoSaveBeforeRestore ==
    /\ [](isInitialized => editorTabs # <<>> /\ activeEditorTabId \in Range(editorTabs))
    /\ [][/\ localStorage'["quackshell_editor_tabs"] # SavedTabs =>
                /\ isInitialized
                /\ editorTabs # <<>>
                /\ localStorage'["quackshell_editor_tabs"] = JSONStringify(editorTabs)
          /\ localStorage'["quackshell_active_tab"] # SavedActiveTab => isInitialized
          /\ IsRestore =>
                /\ localStorage' = localStorage
                /\ SavedTabs.kind = "array" /\ SavedTabs.value # <<>> =>
                      /\ editorTabs' = SavedTabs.value
                      /\ activeEditorTabId' =
                            IF SavedActiveTab.kind = "string" /\ SavedActiveTab.value[1] \in Range(SavedTabs.value)
                            THEN SavedActiveTab.value[1]
                            ELSE SavedTabs.value[1]]_vars

\* C28 witness: two tabs were restored from localStorage, the saved active id
\* is the id of neither, and the first of them is active.
C28_Witness ==
    /\ isInitialized
    /\ SavedTabs = JSONStringify(<<2, 3>>)
    /\ SavedActiveTab = StringItem(1)
    /\ editorTabs = <<2, 3>>
    /\ activeEditorTabId = 2

\* The query history in localStorage.
History == StoredHistory(localStorage)

NoDuplicates(s) == \A i \in DOMAIN s : \A j \in DOMAIN s : s[i] = s[j] => i = j

\* This step is a query returning rows.
IsQuerySuccess == ~results'.null /\ results' # results

\* C29: the stored query history never holds a query twice and never more
\* than 50 queries; a query that returns rows is first in it afterwards, and
\* no other step (a query that returns an error among them) changes it.
C29_QueryHistory ==
    /\ [](NoDuplicates(History) /\ Len(History) <= HistoryLimit)
    /\ [][/\ IsQuerySuccess => Head(StoredHistory(localStorage')) = sql
          /\ ~IsQuerySuccess => StoredHistory(localStorage') = History
          /\ error' = "data.error" => localStorage' = localStorage]_vars

\* C29 witness: a query that was not in a full history has returned rows; it
\* is first, the history is still full and its oldest query is gone.
C29_Witness ==
    /\ Len(History) = HistoryLimit
    /\ History[1] = HistoryLimit + 1
    /\ HistoryLimit \notin Range(History)
    /\ ~results.null

====
